---- MODULE Spec2Model ----
(***************************************************************************)
(* Address and range arithmetic of port::mem (PhysAddr, VirtAddr,          *)
(* PhysRange, VirtRange, the Step implementation that drives               *)
(* step_by_rounded) and the fixed-offset translation of aarch64::kmem.     *)
(*                                                                         *)
(* Machine words are AddrBits wide instead of 64: every `+` and `-` of the *)
(* source is modelled with its overflow behaviour (a panic when the build  *)
(* has overflow checks, a wrap modulo 2^AddrBits when it has not), and     *)
(* every debug_assert! only fires when the build has debug assertions.     *)
(***************************************************************************)
EXTENDS Integers, Sequences, FiniteSets, TLC

\* Width of u64 and of usize in the model (both are 64 bits on the targets).
AddrBits == 4

U64_MAX == 2^AddrBits - 1
USIZE_MAX == 2^AddrBits - 1
Addr == 0..U64_MAX

\* The kernel's virtual base: the top quarter of the address space.
KZERO == 2^AddrBits - 2^(AddrBits - 2)

VARIABLES
  debug_assertions,  \* cfg(debug_assertions) of the build
  overflow_checks,   \* cfg(overflow_checks) of the build
  a, b,              \* the two words a behaviour is about (address, length, step, ...)
  r,                 \* the range that was constructed, NoRange before
  ctor,              \* the constructor that made r
  prev, call,        \* the function called before the last one, and the last one
  arg,               \* the argument the last call chose beyond a, b and r
  out,               \* what the last call produced
  iter,              \* the StepBy<Range<PhysAddr>> made by step_by_rounded
  emitted,           \* the elements the iterator has yielded so far
  runs               \* how many times step_by_rounded was called on r

vars == <<debug_assertions, overflow_checks, a, b, r, ctor, prev, call, arg, out,
          iter, emitted, runs>>

\* How many times one range is iterated.
MaxRuns == 2

----------------------------------------------------------------------------
\* Results of a call: a value, or a panic (the fatal path).
Ok(v) == [kind |-> "ok", val |-> v]
Panic(why) == [kind |-> "panic", val |-> why]
Some(v) == [some |-> TRUE, v |-> v]
None == [some |-> FALSE, v |-> 0]
unwrap_or(o, d) == IF o.some THEN o.v ELSE d
PhysRange(s, e) == [space |-> "phys", start |-> s, end |-> e]
VirtRange(s, e) == [space |-> "virt", start |-> s, end |-> e]
NoRange == [space |-> "none", start |-> 0, end |-> 0]

\* `v as usize`, `v as u64`
as_usize(v) == v % (2^AddrBits)
as_u64(v) == v % (2^AddrBits)

\* Range<T>::contains with the end included.
contains_inclusive(rg, addr) == rg.start <= addr /\ addr <= rg.end

\* Range<T>::contains
contains(rg, addr) == rg.start <= addr /\ addr < rg.end

\* Bitwise operations on AddrBits-wide words.
RECURSIVE BitAndN(_, _, _)
BitAndN(p, q, n) ==
  IF n = 0 THEN 0
  ELSE (p % 2) * (q % 2) + 2 * BitAndN(p \div 2, q \div 2, n - 1)

BitAnd(p, q) == BitAndN(p, q, AddrBits)
BitNot(p) == U64_MAX - p

RECURSIVE CountOnes(_, _)
CountOnes(p, n) ==
  IF n = 0 THEN 0 ELSE (p % 2) + CountOnes(p \div 2, n - 1)

is_power_of_two(p) == CountOnes(p, AddrBits) = 1

\* `a + b` and `a - b` on unsigned words.
u64_add(p, q) ==
  IF p + q <= U64_MAX THEN Ok(p + q)
  ELSE IF overflow_checks THEN Panic("attempt to add with overflow")
  ELSE Ok((p + q) % (2^AddrBits))

u64_sub(p, q) ==
  IF p >= q THEN Ok(p - q)
  ELSE IF overflow_checks THEN Panic("attempt to subtract with overflow")
  ELSE Ok((p - q) % (2^AddrBits))

----------------------------------------------------------------------------
\* VirtAddr

VirtAddr_add(va, offset) == u64_add(va, offset)
VirtAddr_sub(va, offset) == u64_sub(va, offset)

\* PhysAddr

PhysAddr_add(pa, offset) == u64_add(pa, offset)

round_up(pa, step) ==
  IF ~is_power_of_two(step) THEN Panic("assertion failed: step.is_power_of_two()")
  ELSE LET s1 == u64_add(pa, step) IN
       IF s1.kind = "panic" THEN s1
       ELSE LET s2 == u64_sub(s1.val, 1) IN
            IF s2.kind = "panic" THEN s2
            ELSE Ok(BitAnd(s2.val, BitNot(step - 1)))

round_down(pa, step) ==
  IF ~is_power_of_two(step) THEN Panic("assertion failed: step.is_power_of_two()")
  ELSE Ok(BitAnd(pa, BitNot(step - 1)))

is_multiple_of(pa, n) ==
  IF n = 0 THEN pa = 0 ELSE pa % n = 0

\* usize::try_from(u64)
usize_try_from(d) == IF d <= USIZE_MAX THEN Some(d) ELSE None

\* checked_add / checked_sub of u64
checked_add(p, q) == IF p + q <= U64_MAX THEN Some(p + q) ELSE None
checked_sub(p, q) == IF p >= q THEN Some(p - q) ELSE None

\* steps_between that reports an exact count of 0 for startpa > endpa.
steps_between_zero(startpa, endpa) ==
  IF startpa <= endpa
  THEN <<endpa - startpa, Some(endpa - startpa)>>
  ELSE <<0, Some(0)>>

\* (lower bound, upper bound) as in Iterator::size_hint
steps_between(startpa, endpa) ==
  IF startpa <= endpa
  THEN LET diff == checked_sub(endpa, startpa) IN
       IF diff.some
       THEN LET d == usize_try_from(diff.v) IN
            IF d.some THEN <<d.v, Some(d.v)>> ELSE <<0, None>>
       ELSE <<0, None>>
  ELSE <<0, None>>

forward_checked(startpa, count) == checked_add(startpa, as_u64(count))
backward_checked(startpa, count) == checked_sub(startpa, as_u64(count))

----------------------------------------------------------------------------
\* VirtRange

VirtRange_with_len(s, len) ==
  LET e == VirtAddr_add(s, len) IN
  IF e.kind = "panic" THEN e ELSE Ok(VirtRange(s, e.val))

VirtRange_offset_addr(rg, offset) ==
  LET addr == VirtAddr_add(rg.start, offset) IN
  IF addr.kind = "panic" THEN addr
  ELSE Ok(IF contains(rg, addr.val) THEN Some(addr.val) ELSE None)

\* reg is a RegBlock: [addr |-> u64, len |-> Option<u64>]
VirtRange_from_RegBlock(reg) ==
  LET s == as_usize(reg.addr)
      e == VirtAddr_add(s, as_usize(unwrap_or(reg.len, 0)))
  IN IF e.kind = "panic" THEN e ELSE Ok(VirtRange(s, e.val))

\* PhysRange

PhysRange_new(s, e) == Ok(PhysRange(s, e))

with_end(s, e) == Ok(PhysRange(s, e))

with_len(s, len) ==
  LET e == u64_add(s, as_u64(len)) IN
  IF e.kind = "panic" THEN e ELSE Ok(PhysRange(s, e.val))

with_pa_len(s, len) ==
  LET e == u64_add(s, as_u64(len)) IN
  IF e.kind = "panic" THEN e ELSE Ok(PhysRange(s, e.val))

offset_addr(rg, offset) ==
  LET addr == PhysAddr_add(rg.start, offset) IN
  IF addr.kind = "panic" THEN addr
  ELSE Ok(IF contains(rg, addr.val) THEN Some(addr.val) ELSE None)

size(rg) ==
  LET d == u64_sub(rg.end, rg.start) IN
  IF d.kind = "panic" THEN d ELSE Ok(as_usize(d.val))

\* Range<PhysAddr>::step_by: the iterator before its first element.
IdleIter == [live |-> FALSE, start |-> 0, end |-> 0, step |-> 0, first_take |-> FALSE]

step_by(s, e, step) ==
  IF step = 0 THEN Panic("assertion failed: step != 0")
  ELSE Ok([live |-> TRUE, start |-> s, end |-> e, step |-> step - 1,
           first_take |-> TRUE])

step_by_rounded(rg, step_size) ==
  LET startpa == round_down(rg.start, as_u64(step_size)) IN
  IF startpa.kind = "panic" THEN startpa
  ELSE LET endpa == round_up(rg.end, as_u64(step_size)) IN
       IF endpa.kind = "panic" THEN endpa
       ELSE step_by(startpa.val, endpa.val, step_size)

\* Step::forward: forward_checked(..).expect(..)
forward(startpa, count) ==
  LET n == forward_checked(startpa, count) IN
  IF n.some THEN Ok(n.v) ELSE Panic("overflow in Step::forward")

\* Range<PhysAddr>::nth, through the Step implementation of PhysAddr.
\* The result is [res |-> what nth returns, it |-> the iterator afterwards].
Range_nth(it, n) ==
  LET plus_n == forward_checked(it.start, n) IN
  IF plus_n.some /\ plus_n.v < it.end
  THEN LET nx == forward(plus_n.v, 1) IN
       IF nx.kind = "panic" THEN [res |-> nx, it |-> it]
       ELSE [res |-> Ok(Some(plus_n.v)), it |-> [it EXCEPT !.start = nx.val]]
  ELSE [res |-> Ok(None), it |-> [it EXCEPT !.start = it.end]]

\* StepBy::next
StepBy_next(it) ==
  LET step_size == IF it.first_take THEN 0 ELSE it.step IN
  Range_nth([it EXCEPT !.first_take = FALSE], step_size)

\* add that keeps the end of the receiver.
add_keeps_end(rg, other) ==
  Ok(PhysRange(IF rg.start <= other.start THEN rg.start ELSE other.start, rg.end))

add(rg, other) ==
  Ok(PhysRange(IF rg.start <= other.start THEN rg.start ELSE other.start,
               IF rg.end >= other.end THEN rg.end ELSE other.end))

PhysRange_from_RegBlock(reg) ==
  LET s == reg.addr
      e == PhysAddr_add(s, unwrap_or(reg.len, 0))
  IN IF e.kind = "panic" THEN e ELSE Ok(PhysRange(s, e.val))

----------------------------------------------------------------------------
\* aarch64::kmem

\* physaddr_as_ptr_mut_offset_from_kzero with wrapping_sub for wrapping_add.
physaddr_as_ptr_wrapping_sub(pa) ==
  Ok((as_usize(pa) - KZERO) % (2^AddrBits))

physaddr_as_ptr_mut_offset_from_kzero(pa) ==
  Ok((as_usize(pa) + KZERO) % (2^AddrBits))

\* from_virt_to_physaddr whose assertion is va > KZERO.
from_virt_to_physaddr_strict(va) ==
  IF debug_assertions /\ ~(va > KZERO)
  THEN Panic("from_virt_to_physaddr: va must be >= KZERO")
  ELSE LET d == u64_sub(va, KZERO) IN
       IF d.kind = "panic" THEN d ELSE Ok(as_u64(d.val))

from_virt_to_physaddr(va) ==
  IF debug_assertions /\ ~(va >= KZERO)
  THEN Panic("from_virt_to_physaddr: va must be >= KZERO")
  ELSE LET d == u64_sub(va, KZERO) IN
       IF d.kind = "panic" THEN d ELSE Ok(as_u64(d.val))

from_ptr_to_physaddr_offset_from_kzero(p) == from_virt_to_physaddr(p)

----------------------------------------------------------------------------
\* The state machine: a build and two words are fixed, one function (or one
\* constructor followed by a method of the range it made) is applied to them.

Init ==
  /\ debug_assertions \in BOOLEAN
  /\ overflow_checks \in BOOLEAN
  /\ a \in Addr
  /\ b \in Addr
  /\ r = NoRange
  /\ ctor = "none"
  /\ prev = "none"
  /\ call = "none"
  /\ arg = 0
  /\ out = Ok(0)
  /\ iter = IdleIter
  /\ emitted = <<>>
  /\ runs = 0

Fresh == call = "none"

Returns(name, argv, result) ==
  /\ prev' = call
  /\ call' = name
  /\ arg' = argv
  /\ out' = result
  /\ UNCHANGED <<debug_assertions, overflow_checks, a, b>>

\* A function of addresses: nothing is constructed.
Applies(name, argv, result) ==
  /\ Returns(name, argv, result)
  /\ UNCHANGED <<r, ctor, iter, emitted, runs>>

\* A constructor: r is the range it returns.
Constructs(name, argv, result) ==
  /\ Fresh
  /\ Returns(name, argv, result)
  /\ r' = IF result.kind = "ok" THEN result.val ELSE NoRange
  /\ ctor' = name
  /\ UNCHANGED <<iter, emitted, runs>>

\* The last call made the range r.
Built == r.space # "none" /\ call = ctor

IterDone == call = "next" /\ out.kind = "ok" /\ ~out.val.some

VirtAddrAdd == Fresh /\ Applies("VirtAddr::add", 0, VirtAddr_add(a, b))
VirtAddrSub == Fresh /\ Applies("VirtAddr::sub", 0, VirtAddr_sub(a, b))
PhysAddrAdd == Fresh /\ Applies("PhysAddr::add", 0, PhysAddr_add(a, b))
RoundUp == Fresh /\ Applies("round_up", 0, round_up(a, b))
RoundDown == Fresh /\ Applies("round_down", 0, round_down(a, b))
IsMultipleOf == Fresh /\ Applies("is_multiple_of", 0, Ok(is_multiple_of(a, b)))
StepsBetween == Fresh /\ Applies("steps_between", 0, Ok(steps_between(a, b)))
ForwardChecked == Fresh /\ Applies("forward_checked", 0, Ok(forward_checked(a, b)))
BackwardChecked == Fresh /\ Applies("backward_checked", 0, Ok(backward_checked(a, b)))

VirtRangeWithLen == Constructs("VirtRange::with_len", 0, VirtRange_with_len(a, b))

VirtRangeFromRegBlock ==
  \E len \in {None, Some(b)} :
    Constructs("VirtRange::from", len, VirtRange_from_RegBlock([addr |-> a, len |-> len]))

VirtRangeOffsetAddr ==
  /\ Built
  /\ r.space = "virt"
  /\ \E offset \in Addr :
       Applies("VirtRange::offset_addr", offset, VirtRange_offset_addr(r, offset))

PhysRangeNew == Constructs("PhysRange::new", 0, PhysRange_new(a, b))
WithEnd == Constructs("with_end", 0, with_end(a, b))
WithLen == Constructs("with_len", 0, with_len(a, b))
WithPaLen == Constructs("with_pa_len", 0, with_pa_len(a, b))

PhysRangeFromRegBlock ==
  \E len \in {None, Some(b)} :
    Constructs("PhysRange::from", len, PhysRange_from_RegBlock([addr |-> a, len |-> len]))

OffsetAddr ==
  /\ Built
  /\ r.space = "phys"
  /\ \E offset \in Addr : Applies("offset_addr", offset, offset_addr(r, offset))

Size ==
  /\ Built
  /\ r.space = "phys"
  /\ Applies("size", 0, size(r))

Add ==
  /\ Built
  /\ r.space = "phys"
  /\ \E s2 \in Addr, e2 \in Addr :
       Applies("add", PhysRange(s2, e2), add(r, PhysRange(s2, e2)))

\* step_by_rounded on the range just built, or again once an iteration ended.
StepByRounded ==
  /\ r.space = "phys"
  /\ Built \/ IterDone
  /\ runs < MaxRuns
  /\ \E step_size \in Addr :
       LET res == step_by_rounded(r, step_size) IN
       /\ Returns("step_by_rounded", step_size, res)
       /\ iter' = IF res.kind = "ok" THEN res.val ELSE IdleIter
  /\ emitted' = <<>>
  /\ runs' = runs + 1
  /\ UNCHANGED <<r, ctor>>

\* One call of next() on the iterator.
IterNext ==
  /\ iter.live
  /\ call \in {"step_by_rounded", "next"}
  /\ out.kind = "ok"
  /\ ~IterDone
  /\ LET n == StepBy_next(iter) IN
     /\ Returns("next", arg, n.res)
     /\ iter' = n.it
     /\ emitted' = IF n.res.kind = "ok" /\ n.res.val.some
                   THEN Append(emitted, n.res.val.v) ELSE emitted
  /\ UNCHANGED <<r, ctor, runs>>

\* pa is a, or the address from_virt_to_physaddr(a) just returned.
PhysaddrAsPtr ==
  \/ /\ Fresh
     /\ Applies("physaddr_as_ptr_mut_offset_from_kzero", a,
                physaddr_as_ptr_mut_offset_from_kzero(a))
  \/ /\ call = "from_virt_to_physaddr"
     /\ out.kind = "ok"
     /\ Applies("physaddr_as_ptr_mut_offset_from_kzero", out.val,
                physaddr_as_ptr_mut_offset_from_kzero(out.val))

FromVirtToPhysaddr ==
  /\ Fresh
  /\ Applies("from_virt_to_physaddr", a, from_virt_to_physaddr(a))

\* The pointer is a, or the one physaddr_as_ptr_mut_offset_from_kzero(a) just returned.
FromPtrToPhysaddr ==
  \/ /\ Fresh
     /\ Applies("from_ptr_to_physaddr_offset_from_kzero", a,
                from_ptr_to_physaddr_offset_from_kzero(a))
  \/ /\ call = "physaddr_as_ptr_mut_offset_from_kzero"
     /\ prev = "none"
     /\ Applies("from_ptr_to_physaddr_offset_from_kzero", out.val,
                from_ptr_to_physaddr_offset_from_kzero(out.val))

Next ==
  \/ VirtAddrAdd \/ VirtAddrSub \/ PhysAddrAdd
  \/ RoundUp \/ RoundDown \/ IsMultipleOf
  \/ StepsBetween \/ ForwardChecked \/ BackwardChecked
  \/ VirtRangeWithLen \/ VirtRangeFromRegBlock \/ VirtRangeOffsetAddr
  \/ PhysRangeNew \/ WithEnd \/ WithLen \/ WithPaLen \/ PhysRangeFromRegBlock
  \/ OffsetAddr \/ Size \/ StepByRounded \/ IterNext
  \/ PhysaddrAsPtr \/ FromVirtToPhysaddr \/ FromPtrToPhysaddr

Spec == Init /\ [][Next]_vars

\* Union of the range PhysRange::new made with every other range.
NextUnion == PhysRangeNew \/ Add

SpecUnion == Init /\ [][NextUnion]_vars

----------------------------------------------------------------------------
\* Properties

\* Rounding in the integers, where nothing overflows.
FloorTo(v, s) == (v \div s) * s
CeilTo(v, s) == ((v + s - 1) \div s) * s

\* The multiples of s in [round_down(rg.start, s), round_up(rg.end, s)).
AlignedIn(rg, s) ==
  {m \in Addr : m % s = 0 /\ FloorTo(rg.start, s) <= m /\ m < CeilTo(rg.end, s)}

Elements(sq) == {sq[i] : i \in 1..Len(sq)}

Stepping == call \in {"step_by_rounded", "next"} /\ is_power_of_two(arg)

\* C1: for every range and every power-of-two step, step_by_rounded yields no
\* failure but, in increasing order with consecutive elements one step apart
\* and starting at round_down(start), exactly the multiples of the step in
\* [round_down(start), round_up(end)), and then ends; every run on the same
\* range yields that same sequence.
C1_StepByRoundedExact ==
  Stepping =>
    /\ out.kind = "ok"
    /\ \A i \in 1..Len(emitted) : emitted[i] = FloorTo(r.start, arg) + (i - 1) * arg
    /\ Elements(emitted) \subseteq AlignedIn(r, arg)
    /\ IterDone => Elements(emitted) = AlignedIn(r, arg)

\* C2: for every address and every power-of-two step, round_down and round_up
\* return multiples of the step with round_down <= a <= round_up, each equal
\* to a exactly when a is a multiple of the step. (round_up is asked for where
\* the rounded address is a word at all: above it no word meets the claim.)
C2_RoundingBrackets ==
  /\ (call = "round_down" /\ is_power_of_two(b)) =>
       /\ out.kind = "ok"
       /\ out.val <= a
       /\ out.val % b = 0
       /\ (out.val = a) <=> (a % b = 0)
  /\ (call = "round_up" /\ is_power_of_two(b) /\ CeilTo(a, b) <= U64_MAX) =>
       /\ out.kind = "ok"
       /\ a <= out.val
       /\ out.val % b = 0
       /\ (out.val = a) <=> (a % b = 0)

WithLenBuilt == ctor \in {"with_len", "VirtRange::with_len"}
OffsetQuery == call \in {"offset_addr", "VirtRange::offset_addr"}

\* C3 as stated: for every start a and every length b, 0 included, with_len
\* succeeds, size() is b, offset_addr(0) is Some(a), offset_addr(b - 1) is
\* Some(a + b - 1) and offset_addr(b) is None.
C3_WithLenAnyLength ==
  WithLenBuilt =>
    /\ r.space # "none"
    /\ call = "size" => out = Ok(b)
    /\ (OffsetQuery /\ arg = 0) => out = Ok(Some(a))
    /\ (OffsetQuery /\ arg = b - 1) => out = Ok(Some(a + b - 1))
    /\ (OffsetQuery /\ arg = b) => out = Ok(None)

\* C3 amended: the same for every length b >= 1 with a + b <= U64_MAX.
C3_WithLenQueries ==
  (WithLenBuilt /\ b >= 1 /\ a + b <= U64_MAX) =>
    /\ r.space # "none"
    /\ call = "size" => out = Ok(b)
    /\ (OffsetQuery /\ arg = 0) => out = Ok(Some(a))
    /\ (OffsetQuery /\ arg = b - 1) => out = Ok(Some(a + b - 1))
    /\ (OffsetQuery /\ arg = b) => out = Ok(None)

C3_Witness ==
  /\ ctor = "with_len"
  /\ call = "offset_addr"
  /\ a >= 1
  /\ b >= 2
  /\ arg = b
  /\ out = Ok(None)

\* C4: every range that was constructed has start <= end.
C4_StartBeforeEnd == r.space # "none" => r.start <= r.end

\* C5 as stated: from_virt_to_physaddr(a) is a - KZERO for a >= KZERO and
\* a fatal failure, never an address, for a < KZERO.
C5_BelowBaseIsFatal ==
  call = "from_virt_to_physaddr" =>
    IF a >= KZERO THEN out = Ok(a - KZERO) ELSE out.kind = "panic"

\* C5 amended: a - KZERO for a >= KZERO; for a < KZERO the assertion is fatal
\* in a build with debug assertions, the subtraction is fatal in a build with
\* overflow checks only, and a build with neither returns a - KZERO wrapped.
C5_BelowBaseByBuild ==
  call = "from_virt_to_physaddr" =>
    IF a >= KZERO THEN out = Ok(a - KZERO)
    ELSE IF debug_assertions
         THEN out = Panic("from_virt_to_physaddr: va must be >= KZERO")
    ELSE IF overflow_checks
         THEN out = Panic("attempt to subtract with overflow")
    ELSE out = Ok(a - KZERO + 2^AddrBits)

C5_Witness ==
  /\ call = "from_virt_to_physaddr"
  /\ a < KZERO
  /\ ~debug_assertions
  /\ ~overflow_checks
  /\ out.kind = "ok"

Min(p, q) == IF p <= q THEN p ELSE q
Max(p, q) == IF p >= q THEN p ELSE q

\* C6: r.add(other) is min of the starts .. max of the ends, so it covers both
\* ranges; it equals other.add(r); and r.add(r) is r.
C6_UnionCovers ==
  call = "add" =>
    /\ out = Ok(PhysRange(Min(r.start, arg.start), Max(r.end, arg.end)))
    /\ out.val.start <= r.start /\ out.val.start <= arg.start
    /\ out.val.end >= r.end /\ out.val.end >= arg.end
    /\ out = add(arg, r)
    /\ arg = r => out.val = r

\* Two disjoint ranges that do not abut, the later one as the receiver.
C6_Witness ==
  /\ call = "add"
  /\ arg.start < arg.end
  /\ arg.end < r.start
  /\ r.start < r.end
  /\ out = Ok(PhysRange(arg.start, r.end))

\* C7: forward_checked(a, b) is a + b when that is at most U64_MAX and nothing
\* otherwise, backward_checked(a, b) is a - b when b <= a and nothing
\* otherwise, and step_by_rounded over any range with a power-of-two step
\* neither fails nor yields an address below round_down(start).
C7_SteppingNeverFails ==
  /\ call = "forward_checked" =>
       out = Ok(IF a + b <= U64_MAX THEN Some(a + b) ELSE None)
  /\ call = "backward_checked" =>
       out = Ok(IF b <= a THEN Some(a - b) ELSE None)
  /\ Stepping =>
       /\ out.kind = "ok"
       /\ \A i \in 1..Len(emitted) : emitted[i] >= FloorTo(r.start, arg)

\* C8 as stated: steps_between(a, b) is exactly b - a when a <= b and exactly
\* 0 when a > b, the upper bound known in both cases.
C8_StepsBetweenAlwaysKnown ==
  call = "steps_between" =>
    out = Ok(IF a <= b THEN <<b - a, Some(b - a)>> ELSE <<0, Some(0)>>)

\* C8 amended: steps_between(a, b) is exactly b - a when a <= b; when a > b
\* it is a lower bound of 0 with no upper bound.
C8_StepsBetweenOrdered ==
  call = "steps_between" =>
    out = Ok(IF a <= b THEN <<b - a, Some(b - a)>> ELSE <<0, None>>)

C8_Witness ==
  /\ call = "steps_between"
  /\ a > b
  /\ out = Ok(<<0, None>>)

\* C9: for every range and every offset, offset_addr does not fail and returns
\* Some(start + offset) exactly when offset < end - start, None otherwise.
C9_OffsetAddrTotal ==
  OffsetQuery =>
    /\ out.kind = "ok"
    /\ out.val = IF arg < r.end - r.start THEN Some(r.start + arg) ELSE None

\* C10: for a + KZERO <= USIZE_MAX the pointer made from the physical address
\* a converts back to a without a failure, and for a >= KZERO the physical
\* address of the virtual address a converts back to the pointer a.
C10_OffsetRoundTrip ==
  /\ ( /\ call = "from_ptr_to_physaddr_offset_from_kzero"
       /\ prev = "physaddr_as_ptr_mut_offset_from_kzero"
       /\ a + KZERO <= USIZE_MAX ) => (arg = a + KZERO /\ out = Ok(a))
  /\ ( /\ call = "physaddr_as_ptr_mut_offset_from_kzero"
       /\ prev = "from_virt_to_physaddr"
       /\ a >= KZERO ) => (arg = a - KZERO /\ out = Ok(a))

C10_Witness ==
  /\ call = "from_ptr_to_physaddr_offset_from_kzero"
  /\ prev = "physaddr_as_ptr_mut_offset_from_kzero"
  /\ a >= 1
  /\ a + KZERO <= USIZE_MAX
  /\ out = Ok(a)

====
